---- MODULE Spec2Model ----
(***************************************************************************)
(* Model of src/client/HttpClient.ts: the fetch-based executor WebFetch    *)
(* and the facade WebFetchHTTPClient.                                      *)
(*                                                                         *)
(* A call of httpRequest is followed through its steps on the event loop:  *)
(* the synchronous prefix of WebFetch.request (timer, header, URL, fetch), *)
(* the settlement of fetch, the settlement of response.json(), and the     *)
(* resumption of httpRequest.  The timer callback is a step of its own.    *)
(* The network is the environment: it chooses whether fetch settles, with  *)
(* which status, and whether and with which text the body completes.       *)
(***************************************************************************)
EXTENDS Integers, Sequences, FiniteSets, TLC

(***************************************************************************)
(* Bounds of the model.                                                    *)
(***************************************************************************)
\* httpRequest calls issued in the concurrent specification
MaxCalls == 2
\* initHttpClient calls issued
MaxInits == 2

(***************************************************************************)
(* JavaScript values.  Every value is a record tagged by its type, so that *)
(* values of different types are never compared field against field.      *)
(***************************************************************************)
Undefined == [t |-> "undefined"]
JNull == [t |-> "null"]
JFalse == [t |-> "boolean", b |-> FALSE]
JNum(n) == [t |-> "number", v |-> n]
JStr(s) == [t |-> "string", s |-> s]
JObj(f) == [t |-> "object", f |-> f]

\* typeof x === "number"
IsNumber(x) == x.t = "number"

\* x.name for a JavaScript value x: a TypeError on null and undefined, the
\* field of an object that has it, undefined on everything else.
CanReadProperty(x) == x.t \notin {"null", "undefined"}
GetProperty(x, name) ==
    IF x.t = "object" /\ name \in DOMAIN x.f THEN x.f[name] ELSE Undefined

\* Decimal digits of a natural number, as String(n) gives them.
Digit(d) ==
    CASE d = 0 -> "0" [] d = 1 -> "1" [] d = 2 -> "2" [] d = 3 -> "3"
      [] d = 4 -> "4" [] d = 5 -> "5" [] d = 6 -> "6" [] d = 7 -> "7"
      [] d = 8 -> "8" [] d = 9 -> "9"

RECURSIVE Digits(_)
Digits(n) == IF n < 10 THEN Digit(n) ELSE Digits(n \div 10) \o Digit(n % 10)

\* String(x) as URLSearchParams applies it to a value of a query mapping.
\* A string is kept; a number becomes its decimal digits.
ToQueryString(x) ==
    CASE x.t = "string" -> x.s
      [] x.t = "number" -> Digits(x.v)
      [] x.t = "null" -> "null"
      [] OTHER -> "undefined"

(***************************************************************************)
(* URLs.  A URL is its origin, its pathname and the list of its query      *)
(* pairs.  A path given to request is relative, absolute or malformed.     *)
(***************************************************************************)
RelPath(pathname, search) ==
    [kind |-> "relative", pathname |-> pathname, search |-> search]
AbsPath(origin, pathname, search) ==
    [kind |-> "absolute", origin |-> origin, pathname |-> pathname, search |-> search]
BadPath == [kind |-> "invalid"]

\* A base URL parses when it is not the empty string.
ValidBase(base) == base # ""

\* new URL(path, base) throws a TypeError ("Invalid URL") on a malformed
\* path and on a relative path with a base that does not parse.
URLThrows(path, base) ==
    \/ path.kind = "invalid"
    \/ path.kind = "relative" /\ ~ValidBase(base)

\* new URL(path, base): an absolute path ignores the base.
NewURL(path, base) ==
    [origin |-> IF path.kind = "absolute" THEN path.origin ELSE base,
     pathname |-> path.pathname,
     search |-> path.search]

\* Object.entries(url.searchParams): a URLSearchParams object has no own
\* enumerable string-keyed property, whatever pairs it holds.
EntriesOfSearchParams(searchParams) == << >>

\* Object.entries(params), each value as URLSearchParams stringifies it.
EntriesOfParams(params) ==
    [i \in 1..Len(params) |-> <<params[i][1], ToQueryString(params[i][2])>>]

\* WebFetch.addSearchParams
addSearchParams(url, params) ==
    [origin |-> url.origin,
     pathname |-> url.pathname,
     search |-> EntriesOfSearchParams(url.search) \o EntriesOfParams(params)]

(***************************************************************************)
(* Headers objects.  A Headers object is a list of (lower-cased name,      *)
(* value) pairs and a guard; append on an immutable object throws.         *)
(***************************************************************************)
Lower(name) ==
    CASE name = "Content-Type" -> "content-type"
      [] name = "X-Token" -> "x-token"
      [] OTHER -> name

\* Headers.append(name, value) throws a TypeError on an immutable object.
AppendThrows(h) == h.guard = "immutable"

\* Headers.append(name, value): one more pair; pairs of the name are kept.
HeadersAppend(h, name, value) ==
    [h EXCEPT !.list = Append(h.list, <<Lower(name), value>>)]

\* Headers.get(name): the values of the pairs of that name, in order
\* (the fetch standard joins them with ", ").
HeadersGet(list, name) ==
    LET own == SelectSeq(list, LAMBDA p : p[1] = Lower(name))
    IN  [i \in 1..Len(own) |-> own[i][2]]

(***************************************************************************)
(* Errors and Results.                                                     *)
(***************************************************************************)
\* new PostmarkError(message, code, statusCode); an argument that is not
\* given is undefined.
PostmarkError(message, code, statusCode) ==
    [name |-> "PostmarkError", message |-> message, code |-> code,
     statusCode |-> statusCode]

\* An error thrown by the platform.
PlatformError(name, message) == [name |-> name, message |-> message]

\* type Result<D, E>
Failure(error) == [success |-> FALSE, error |-> error]
Success(data) == [success |-> TRUE, data |-> data]

\* Promise states.
Pending == [t |-> "pending"]
Resolved(value) == [t |-> "resolved", value |-> value]
Rejected(reason) == [t |-> "rejected", reason |-> reason]

(***************************************************************************)
(* The network's responses.                                                *)
(***************************************************************************)
StatusCodes == {199, 200, 299, 300}

\* The body of a response: JSON text of a value, text that is not JSON,
\* no text, or a body whose read never completes.
JsonBody(value) == [kind |-> "json", value |-> value]
TextBody == [kind |-> "text"]
EmptyBody == [kind |-> "empty"]
StalledBody == [kind |-> "stalled"]

EnvelopeNumCode == JObj([data |-> JStr("payload"), ErrorCode |-> JNum(300)])
EnvelopeStrCode == JObj([data |-> JNum(7), ErrorCode |-> JStr("300")])
EnvelopeBare == JObj([Message |-> JStr("OK")])

Bodies ==
    {JsonBody(EnvelopeNumCode), JsonBody(EnvelopeStrCode), JsonBody(EnvelopeBare),
     JsonBody(JNull), JsonBody(JNum(5)), TextBody, EmptyBody, StalledBody}

Responses == [status : StatusCodes, body : Bodies]

\* The reasons fetch rejects with when the network fails.
NetworkErrors == {PlatformError("TypeError", "fetch failed")}

\* The reason fetch rejects with when its signal is aborted.
AbortError == PlatformError("AbortError", "This operation was aborted")

NoRequest == [t |-> "none"]
NoResponse == [t |-> "none"]

(***************************************************************************)
(* Configuration.  A configuration maps some of the option names to        *)
(* values.                                                                 *)
(***************************************************************************)
DefaultBaseURL == "https://api.example"
OtherBaseURL == "https://eu.example"

\* HttpClient.DefaultOptions
DefaultOptions == [baseURL |-> DefaultBaseURL]

\* {...defaults, ...configOptions}: every key of configOptions wins.
Spread(defaults, configOptions) ==
    [k \in DOMAIN defaults \cup DOMAIN configOptions |->
        IF k \in DOMAIN configOptions THEN configOptions[k] ELSE defaults[k]]

\* HttpClient.getBaseHttpRequestURL
getBaseHttpRequestURL(options) == options["baseURL"]

DefaultTimeoutSeconds == 60
MsPerSecond == 1000

\* x || 60 : 0 and undefined are falsy.
OrDefault(x, d) == IF x.t = "number" /\ x.v # 0 THEN x.v ELSE d

\* WebFetchHTTPClient.getRequestTimeoutInMilliseconds
getRequestTimeoutInMilliseconds(options) ==
    OrDefault(IF "timeout" \in DOMAIN options THEN options["timeout"] ELSE Undefined,
              DefaultTimeoutSeconds) * MsPerSecond

\* The predicate initHttpClient gives to every executor.
validateStatus(status) == status >= 200 /\ status < 300

\* new WebFetch({baseURL, timeout, responseType, validateStatus})
NewWebFetch(baseURL, timeout) ==
    [baseURL |-> baseURL, timeout |-> timeout,
     validateStatus |-> [s \in StatusCodes |-> validateStatus(s)]]

(***************************************************************************)
(* The inputs the environment draws from.                                  *)
(***************************************************************************)
PlainPath == RelPath("/email", << >>)
QueryPath == RelPath("/x", << <<"a", "1">> >>)
ElsewherePath == AbsPath("https://elsewhere.example", "/y", << <<"a", "1">> >>)

Paths == {PlainPath, QueryPath, ElsewherePath, BadPath}

\* Query mappings: the entries of an object, in insertion order.
NoParams == << >>
OneParam == << <<"b", JNum(2)>> >>
TwoParams == << <<"a", JStr("2")>>, <<"count", JNum(10)>> >>

ParamSets == {NoParams, OneParam, TwoParams}

\* A method and the body that goes with it.
Payload == JObj([To |-> JStr("someone")])
MethodsAndData == {<<"GET", JNull>>, <<"POST", Payload>>}

\* The Headers objects callers hold: an empty one, one with a token and a
\* Content-Type of its own, and an immutable one.
HeaderObjects == {1, 2, 3}
InitialHeaders(h) ==
    CASE h = 1 -> [guard |-> "none", list |-> << >>]
      [] h = 2 -> [guard |-> "none",
                   list |-> << <<"x-token", "t0k">>, <<"content-type", "text/plain">> >>]
      [] OTHER -> [guard |-> "immutable", list |-> << <<"x-token", "t0k">> >>]

RequestArgs ==
    {[method |-> md[1], url |-> p, data |-> md[2], headers |-> h, params |-> q] :
        md \in MethodsAndData, p \in Paths, h \in HeaderObjects, q \in ParamSets}

\* The configurations initHttpClient is called with.
Configurations ==
    {<< >>,
     [timeout |-> JNum(0)],
     [baseURL |-> OtherBaseURL, timeout |-> JNum(2)]}

\* The inputs of the concurrent specification: calls that share one Headers
\* object, answered with an accepted or a rejected status or failed by the
\* network.
FewRequestArgs ==
    {[method |-> "GET", url |-> QueryPath, data |-> JNull, headers |-> 1,
      params |-> OneParam]}
FewResponses ==
    [status : {200, 300}, body : {JsonBody(EnvelopeNumCode)}]
FewConfigurations ==
    {[baseURL |-> OtherBaseURL], [baseURL |-> DefaultBaseURL, timeout |-> JNum(2)]}

(***************************************************************************)
(* State.                                                                  *)
(***************************************************************************)
VARIABLES
    clientOptions,   \* WebFetchHTTPClient.clientOptions
    client,          \* WebFetchHTTPClient.client: an index of executors, 0 before the first initHttpClient
    executors,       \* the WebFetch objects built so far, in order of construction
    heap,            \* the Headers objects of the callers
    pc,              \* where each httpRequest call stands
    args,            \* the arguments of each call's request
    self,            \* the WebFetch object each call's request runs on ("this")
    timer,           \* each call's setTimeout: its state and its delay
    aborted,         \* each call's controller.signal.aborted
    sent,            \* what each call gave to fetch
    response,        \* the Response each call's fetch resolved with
    requestPromise,  \* the promise each call's request returned
    httpPromise,     \* the promise each call's httpRequest returned
    fetches          \* how many times each call has called fetch

facadeVars == <<clientOptions, client, executors>>
callVars == <<pc, args, self, timer, aborted, sent, response, requestPromise, httpPromise,
              fetches>>
vars == <<clientOptions, client, executors, heap, pc, args, self, timer, aborted, sent,
          response, requestPromise, httpPromise, fetches>>

Calls == 1..MaxCalls

NoArgs == [t |-> "none"]
NoTimer == [st |-> "none", ms |-> 0]

Init ==
    /\ clientOptions = DefaultOptions
    /\ client = 0
    /\ executors = << >>
    /\ heap = [h \in HeaderObjects |-> InitialHeaders(h)]
    /\ pc = [c \in Calls |-> "idle"]
    /\ args = [c \in Calls |-> NoArgs]
    /\ self = [c \in Calls |-> 0]
    /\ timer = [c \in Calls |-> NoTimer]
    /\ aborted = [c \in Calls |-> FALSE]
    /\ sent = [c \in Calls |-> NoRequest]
    /\ response = [c \in Calls |-> NoResponse]
    /\ requestPromise = [c \in Calls |-> Pending]
    /\ httpPromise = [c \in Calls |-> Pending]
    /\ fetches = [c \in Calls |-> 0]

(***************************************************************************)
(* WebFetchHTTPClient.initHttpClient                                       *)
(***************************************************************************)
\* An initHttpClient that reconfigures the executor it already has.
ExecutorsAfterInitInPlace(execs, options) ==
    IF execs = << >>
    THEN <<NewWebFetch(getBaseHttpRequestURL(options),
                       getRequestTimeoutInMilliseconds(options))>>
    ELSE [execs EXCEPT ![Len(execs)] =
             NewWebFetch(getBaseHttpRequestURL(options),
                         getRequestTimeoutInMilliseconds(options))]

\* The executors after initHttpClient built one from the resolved options.
ExecutorsAfterInit(execs, options) ==
    Append(execs, NewWebFetch(getBaseHttpRequestURL(options),
                              getRequestTimeoutInMilliseconds(options)))

\* An initHttpClient that overlays the options it already resolved.
InitHttpClientAccumulating(configOptions) ==
    /\ Len(executors) < MaxInits
    /\ clientOptions' = Spread(clientOptions, configOptions)
    /\ executors' = ExecutorsAfterInit(executors, clientOptions')
    /\ client' = Len(executors')
    /\ UNCHANGED <<fetches, heap, pc, args, self, timer, aborted, sent, response,
                   requestPromise, httpPromise>>

InitHttpClient(configOptions) ==
    /\ Len(executors) < MaxInits
    /\ clientOptions' = Spread(DefaultOptions, configOptions)
    /\ executors' = ExecutorsAfterInit(executors, clientOptions')
    /\ client' = Len(executors')
    /\ UNCHANGED <<fetches, heap, pc, args, self, timer, aborted, sent, response,
                   requestPromise, httpPromise>>

(***************************************************************************)
(* WebFetch.request, step by step.                                         *)
(***************************************************************************)
\* A catch block that reports every exception under the fixed message.
CatchResultFixedMessage(error) ==
    Failure(PostmarkError("Request failed", Undefined, Undefined))

\* The catch block: whatever was thrown becomes a failure with its message.
CatchResult(error) == Failure(PostmarkError(error.message, Undefined, Undefined))

\* The init object given to fetch: method, headers and signal; the headers
\* are copied into the request when fetch is called.
FetchCall(url, method, headers) ==
    [t |-> "request", url |-> url, method |-> method, headers |-> headers,
     body |-> Undefined]

\* The error code taken from the body without looking at its type.
ErrorCodeOfAnyType(data) == GetProperty(data, "ErrorCode")

\* typeof data.ErrorCode === "number" && data.ErrorCode
ErrorCodeOf(data) ==
    IF IsNumber(GetProperty(data, "ErrorCode")) THEN GetProperty(data, "ErrorCode")
    ELSE JFalse

\* What request returns once response.json() has settled: the code after
\* the second await, with its catch block.
ResultOfBody(executor, resp) ==
    IF resp.body.kind = "text"
    THEN CatchResult(PlatformError("SyntaxError", "Unexpected token in JSON"))
    ELSE IF resp.body.kind = "empty"
    THEN CatchResult(PlatformError("SyntaxError", "Unexpected end of JSON input"))
    ELSE LET data == resp.body.value IN
         IF ~executor.validateStatus[resp.status]
         THEN IF CanReadProperty(data)
              THEN Failure(PostmarkError("Request failed", ErrorCodeOf(data),
                                         JNum(resp.status)))
              ELSE CatchResult(PlatformError("TypeError",
                                             "Cannot read properties of null"))
         ELSE IF CanReadProperty(data)
              THEN Success(GetProperty(data, "data"))
              ELSE CatchResult(PlatformError("TypeError",
                                             "Cannot read properties of null"))

\* setTimeout(() => controller.abort(), this.timeout)
ArmedTimer(executor) == [st |-> "armed", ms |-> executor.timeout]

\* A clearTimeout that is given the wrong id and clears nothing.
ClearTimeoutOfNothing(tm) == tm

\* clearTimeout(id): a timer that already fired stays fired.
ClearTimeout(tm) == IF tm.st = "armed" THEN [tm EXCEPT !.st = "cleared"] ELSE tm

\* A callback that forgets to abort the controller.
TimerCallbackWithoutAbort(ab, c) == ab

\* A callback on a controller that all the calls share.
TimerCallbackSharedController(ab, c) == [d \in DOMAIN ab |-> TRUE]

\* The timer's callback: controller.abort().
TimerCallback(ab, c) == [ab EXCEPT ![c] = TRUE]

\* httpRequest is called: this.client.request(...) runs up to its first
\* await.  Calls are numbered in the order they are made.
HttpRequest(c, a) ==
    /\ pc[c] = "idle"
    /\ \A d \in Calls : d < c => pc[d] # "idle"
    /\ args' = [args EXCEPT ![c] = a]
    /\ UNCHANGED <<facadeVars, aborted, response>>
    /\ IF client = 0
       THEN \* this.client is undefined: httpRequest itself throws
            /\ httpPromise' = [httpPromise EXCEPT ![c] =
                   Rejected(PlatformError("TypeError",
                                          "Cannot read properties of undefined"))]
            /\ pc' = [pc EXCEPT ![c] = "done"]
            /\ UNCHANGED <<heap, self, timer, sent, requestPromise, fetches>>
       ELSE LET executor == executors[client] IN
            /\ self' = [self EXCEPT ![c] = client]
            /\ timer' = [timer EXCEPT ![c] = ArmedTimer(executor)]
            /\ UNCHANGED httpPromise
            /\ IF AppendThrows(heap[a.headers])
               THEN \* thrown before the try block: the promise is rejected
                    /\ requestPromise' = [requestPromise EXCEPT ![c] =
                           Rejected(PlatformError("TypeError", "immutable"))]
                    /\ pc' = [pc EXCEPT ![c] = "settled"]
                    /\ UNCHANGED <<heap, sent, fetches>>
               ELSE /\ heap' = [heap EXCEPT ![a.headers] =
                           HeadersAppend(@, "Content-Type", "application/json")]
                    /\ IF URLThrows(a.url, executor.baseURL)
                       THEN /\ requestPromise' = [requestPromise EXCEPT ![c] =
                                   Resolved(CatchResult(
                                       PlatformError("TypeError", "Invalid URL")))]
                            /\ pc' = [pc EXCEPT ![c] = "settled"]
                            /\ UNCHANGED <<sent, fetches>>
                       ELSE /\ sent' = [sent EXCEPT ![c] =
                                   FetchCall(addSearchParams(
                                                 NewURL(a.url, executor.baseURL),
                                                 a.params),
                                             a.method, heap'[a.headers].list)]
                            /\ fetches' = [fetches EXCEPT ![c] = @ + 1]
                            /\ pc' = [pc EXCEPT ![c] = "fetching"]
                            /\ UNCHANGED requestPromise

\* The timer fires: its callback aborts the call's controller.
TimerFire(c) ==
    /\ timer[c].st = "armed"
    /\ timer' = [timer EXCEPT ![c].st = "fired"]
    /\ aborted' = TimerCallback(aborted, c)
    /\ UNCHANGED <<facadeVars, fetches, heap, pc, args, self, sent, response,
                   requestPromise, httpPromise>>

\* fetch resolves with a Response: the timer is cleared, response.json()
\* is awaited.
FetchResolve(c, resp) ==
    /\ pc[c] = "fetching"
    /\ ~aborted[c]
    /\ response' = [response EXCEPT ![c] = resp]
    /\ timer' = [timer EXCEPT ![c] = ClearTimeout(@)]
    /\ pc' = [pc EXCEPT ![c] = "reading"]
    /\ UNCHANGED <<facadeVars, fetches, heap, args, self, aborted, sent, requestPromise,
                   httpPromise>>

\* A request that calls fetch once more when the network failed.
FetchRejectWithRetry(c, error) ==
    /\ pc[c] = "fetching"
    /\ ~aborted[c]
    /\ fetches[c] < 2
    /\ fetches' = [fetches EXCEPT ![c] = @ + 1]
    /\ UNCHANGED <<facadeVars, heap, pc, args, self, timer, aborted, sent, response,
                   requestPromise, httpPromise>>

\* fetch rejects because the network failed: the catch block runs.
FetchReject(c, error) ==
    /\ pc[c] = "fetching"
    /\ ~aborted[c]
    /\ requestPromise' = [requestPromise EXCEPT ![c] = Resolved(CatchResult(error))]
    /\ pc' = [pc EXCEPT ![c] = "settled"]
    /\ UNCHANGED <<facadeVars, fetches, heap, args, self, timer, aborted, sent, response,
                   httpPromise>>

\* fetch rejects because its signal was aborted: the catch block runs.
FetchAbort(c) ==
    /\ pc[c] = "fetching"
    /\ aborted[c]
    /\ requestPromise' = [requestPromise EXCEPT ![c] = Resolved(CatchResult(AbortError))]
    /\ pc' = [pc EXCEPT ![c] = "settled"]
    /\ UNCHANGED <<facadeVars, fetches, heap, args, self, timer, aborted, sent, response,
                   httpPromise>>

\* response.json() settles: the body was read to its end.
JsonSettle(c) ==
    /\ pc[c] = "reading"
    /\ response[c].body.kind # "stalled"
    /\ requestPromise' = [requestPromise EXCEPT ![c] =
           Resolved(ResultOfBody(executors[self[c]], response[c]))]
    /\ pc' = [pc EXCEPT ![c] = "settled"]
    /\ UNCHANGED <<facadeVars, fetches, heap, args, self, timer, aborted, sent, response,
                   httpPromise>>

(***************************************************************************)
(* WebFetchHTTPClient.httpRequest after its await.                         *)
(***************************************************************************)
\* An httpRequest that returns on failure too, dropping the error.
UnwrapDroppingError(promise) ==
    IF promise.t = "rejected" THEN Rejected(promise.reason)
    ELSE IF promise.value.success THEN Resolved(promise.value.data)
    ELSE Resolved(Undefined)

\* if (res.success) return res.data; else throw res.error.  A rejection of
\* the awaited promise is thrown on as it is.
Unwrap(promise) ==
    IF promise.t = "rejected" THEN Rejected(promise.reason)
    ELSE IF promise.value.success THEN Resolved(promise.value.data)
    ELSE Rejected(promise.value.error)

HttpRequestResume(c) ==
    /\ pc[c] = "settled"
    /\ httpPromise' = [httpPromise EXCEPT ![c] = Unwrap(requestPromise[c])]
    /\ pc' = [pc EXCEPT ![c] = "done"]
    /\ UNCHANGED <<facadeVars, fetches, heap, args, self, timer, aborted, sent, response,
                   requestPromise>>

(***************************************************************************)
(* Specifications.                                                         *)
(***************************************************************************)
\* One call, with every input and every response.
Next ==
    \/ \E cfg \in Configurations : InitHttpClient(cfg)
    \/ \E a \in RequestArgs : HttpRequest(1, a)
    \/ TimerFire(1)
    \/ \E resp \in Responses : FetchResolve(1, resp)
    \/ \E error \in NetworkErrors : FetchReject(1, error)
    \/ FetchAbort(1)
    \/ JsonSettle(1)
    \/ HttpRequestResume(1)

Spec == Init /\ [][Next]_vars

\* The event loop runs every callback and continuation that is ready; the
\* network owes nothing.
Fairness ==
    /\ WF_vars(TimerFire(1))
    /\ WF_vars(FetchAbort(1))
    /\ WF_vars(JsonSettle(1))
    /\ WF_vars(HttpRequestResume(1))

FairSpec == Spec /\ Fairness

\* Several calls in flight at once, sharing Headers objects, while the
\* client is re-initialized.
NextConcurrent ==
    \/ \E cfg \in FewConfigurations : InitHttpClient(cfg)
    \/ \E c \in Calls, a \in FewRequestArgs : HttpRequest(c, a)
    \/ \E c \in Calls : TimerFire(c)
    \/ \E c \in Calls, resp \in FewResponses : FetchResolve(c, resp)
    \/ \E c \in Calls, error \in NetworkErrors : FetchReject(c, error)
    \/ \E c \in Calls : FetchAbort(c)
    \/ \E c \in Calls : JsonSettle(c)
    \/ \E c \in Calls : HttpRequestResume(c)

SpecConcurrent == Init /\ [][NextConcurrent]_vars

(***************************************************************************)
(* Claims.                                                                 *)
(***************************************************************************)
\* The request of call c has started (the call reached WebFetch.request).
Started(c) == self[c] # 0

\* The request of call c has returned a Result.
HasResult(c) == requestPromise[c].t = "resolved"

\* C1: every call of request eventually produces a Result, whatever the
\* network does (fetch never settles, settles late, or the body read by
\* response.json() never completes): no call stays pending forever.
C1_EveryRequestEnds ==
    \A c \in Calls : Started(c) ~> (requestPromise[c].t # "pending")

\* C2: request never lets an exception escape: its promise is never
\* rejected, at whatever point of its body the failure happens.
C2_RequestNeverRejects ==
    \A c \in Calls : requestPromise[c].t # "rejected"

\* C3: the URL given to fetch carries every query pair embedded in the path
\* followed by every entry of the explicit mapping, none dropped.
C3_QueryIsEmbeddedThenExplicit ==
    \A c \in Calls :
        sent[c] # NoRequest =>
            sent[c].url.search = args[c].url.search \o EntriesOfParams(args[c].params)

\* C4: for every response with a status outside [200,300), whatever its
\* body, httpRequest throws an error whose httpStatus is that status.
C4_RejectedStatusIsThrownWithStatus ==
    \A c \in Calls :
        (/\ pc[c] = "done"
         /\ response[c] # NoResponse
         /\ ~(response[c].status >= 200 /\ response[c].status < 300))
        => /\ httpPromise[c].t = "rejected"
           /\ httpPromise[c].reason.name = "PostmarkError"
           /\ httpPromise[c].reason.statusCode = JNum(response[c].status)

\* C5: for every response that arrives before the timeout with a status in
\* [200,300), httpRequest resolves with the data field of the parsed body.
C5_AcceptedStatusResolvesWithData ==
    \A c \in Calls :
        (/\ pc[c] = "done"
         /\ response[c] # NoResponse
         /\ response[c].status >= 200 /\ response[c].status < 300)
        => /\ httpPromise[c].t = "resolved"
           /\ response[c].body.kind = "json"
           /\ httpPromise[c].value = GetProperty(response[c].body.value, "data")

\* C6: once request has chosen its outcome (success, rejected status, parse
\* failure, transport failure, URL failure or timeout), its timer is no
\* longer armed.
C6_NoTimerLeftArmed ==
    \A c \in Calls : HasResult(c) => timer[c].st # "armed"

\* The failure a timeout ends in: a failure Result with no error code and
\* no HTTP status, produced without any response.
TimeoutFailure(c) ==
    /\ HasResult(c)
    /\ ~requestPromise[c].value.success
    /\ requestPromise[c].value.error.code = Undefined
    /\ requestPromise[c].value.error.statusCode = Undefined
    /\ response[c] = NoResponse

\* The timer of call c fired while its fetch was pending.
TimedOut(c) == pc[c] = "fetching" /\ timer[c].st = "fired"

\* C7: when the timer fires while fetch is pending, the fetch is aborted
\* and the call ends with a failure Result without status and error code;
\* no response that comes later is taken, and the call does not wait for one.
C7_TimeoutEndsInFailure ==
    /\ [][\A c \in Calls :
            /\ (pc[c] = "fetching" /\ timer[c].st = "armed" /\ timer'[c].st = "fired")
                   => aborted'[c]
            /\ TimedOut(c) => (TimedOut(c)' /\ response'[c] = NoResponse)
                              \/ TimeoutFailure(c)'
            /\ TimeoutFailure(c) => requestPromise'[c] = requestPromise[c]]_vars
    /\ \A c \in Calls : TimedOut(c) ~> TimeoutFailure(c)

\* C7's case: the timer fired during the fetch and the call ended with the
\* abort's failure.
C7_Witness ==
    /\ timer[1].st = "fired"
    /\ sent[1] # NoRequest
    /\ TimeoutFailure(1)
    /\ requestPromise[1].value.error.message = AbortError.message
    /\ pc[1] = "done"
    /\ httpPromise[1].t = "rejected"

\* The URL an executor with this base gives to fetch for this path.
TargetOrigin(path, base) == IF path.kind = "absolute" THEN path.origin ELSE base

\* C8: after initHttpClient is called again, every httpRequest started
\* afterwards targets the new base URL; a call already in flight keeps the
\* executor it was issued from and is not touched by the re-initialization;
\* an executor's baseURL, timeout and predicate never change once built.
C8_ReinitLeavesCallsInFlightAlone ==
    [][/\ \A i \in 1..Len(executors) :
              Len(executors') >= i /\ executors'[i] = executors[i]
       /\ \A c \in Calls :
              /\ Started(c) => self'[c] = self[c]
              /\ (sent[c] # NoRequest) => sent'[c] = sent[c]
              /\ (timer[c].st # "none") => timer'[c].ms = executors'[self'[c]].timeout
              /\ (~Started(c) /\ Started(c)') =>
                     /\ self'[c] = Len(executors)
                     /\ executors[self'[c]].baseURL = getBaseHttpRequestURL(clientOptions)
                     /\ sent'[c] # NoRequest =>
                            sent'[c].url.origin =
                                TargetOrigin(args'[c].url,
                                             getBaseHttpRequestURL(clientOptions))
       /\ (executors' # executors \/ client' # client \/ clientOptions' # clientOptions)
              => UNCHANGED <<heap, callVars>>]_vars

\* C8's case: a call issued before the re-initialization is still in flight
\* against the old base URL while a later call targets the new one.
C8_Witness ==
    /\ Len(executors) = 2
    /\ executors[1].baseURL # executors[2].baseURL
    /\ self[1] = 1 /\ pc[1] = "fetching" /\ sent[1].url.origin = executors[1].baseURL
    /\ self[2] = 2 /\ sent[2] # NoRequest /\ sent[2].url.origin = executors[2].baseURL

\* C9: calls are independent: two calls made with the same arguments on the
\* same executor issue the same network request (URL, method, headers).
C9_SameArgumentsSameRequest ==
    \A c, d \in Calls :
        (/\ sent[c] # NoRequest /\ sent[d] # NoRequest
         /\ args[c] = args[d] /\ self[c] = self[d])
        => sent[c] = sent[d]

\* C10: every network call carries Content-Type: application/json unless
\* the caller supplied a Content-Type, which is then left as supplied; every
\* header of the caller is sent with its value.
C10_ContentTypeSetOnlyIfAbsent ==
    \A c \in Calls :
        sent[c] # NoRequest =>
            LET supplied == InitialHeaders(args[c].headers).list IN
            sent[c].headers =
                IF HeadersGet(supplied, "Content-Type") # << >> THEN supplied
                ELSE Append(supplied, <<"content-type", "application/json">>)

\* The response of call c was rejected by the executor's status predicate.
StatusRejected(c) ==
    /\ response[c] # NoResponse
    /\ ~executors[self[c]].validateStatus[response[c].status]

\* The body of call c's response is a JSON object with a numeric ErrorCode.
HasNumericErrorCode(c) ==
    /\ response[c].body.kind = "json"
    /\ response[c].body.value.t = "object"
    /\ "ErrorCode" \in DOMAIN response[c].body.value.f
    /\ response[c].body.value.f["ErrorCode"].t = "number"

\* C11: for a response rejected by the status predicate, the error's code is
\* the body's ErrorCode when that field is a number, and is false or absent
\* when ErrorCode is a string, of another type, or missing.
C11_ErrorCodeOnlyWhenNumeric ==
    \A c \in Calls :
        (HasResult(c) /\ StatusRejected(c)) =>
            /\ ~requestPromise[c].value.success
            /\ IF HasNumericErrorCode(c)
               THEN requestPromise[c].value.error.code =
                        response[c].body.value.f["ErrorCode"]
               ELSE requestPromise[c].value.error.code \in {JFalse, Undefined}

\* C11's case: status 300 with ErrorCode 300 in the body gave code 300.
C11_Witness ==
    /\ HasResult(1) /\ StatusRejected(1) /\ HasNumericErrorCode(1)
    /\ requestPromise[1].value.error.code = JNum(300)
    /\ requestPromise[1].value.error.statusCode = JNum(response[1].status)

\* The message of the SyntaxError response.json() throws on such a body.
ParseMessage(body) ==
    IF body.kind = "text" THEN "Unexpected token in JSON"
    ELSE "Unexpected end of JSON input"

\* The error of call c's failure Result is a PostmarkError with this
\* message, without error code and without HTTP status.
FailsWithMessageOnly(promise, message) ==
    /\ promise.t = "resolved"
    /\ ~promise.value.success
    /\ promise.value.error = PostmarkError(message, Undefined, Undefined)

\* An error an httpRequest call holds that carries an HTTP status.
CarriesStatus(error) == error.name = "PostmarkError" /\ error.statusCode # Undefined

\* C12: when fetch rejects for another reason than the timeout, or the body
\* is not valid JSON, request returns a failure whose error has the
\* exception's message, no code and no status, and httpRequest throws that
\* error; an error carries an HTTP status only if a response was received.
C12_TransportAndParseFailures ==
    /\ [](\A c \in Calls :
            /\ (HasResult(c) /\ ~requestPromise[c].value.success
                  /\ CarriesStatus(requestPromise[c].value.error))
                   => response[c] # NoResponse
            /\ (httpPromise[c].t = "rejected" /\ CarriesStatus(httpPromise[c].reason))
                   => response[c] # NoResponse)
    /\ [][\A c \in Calls :
            /\ (pc[c] = "fetching" /\ ~aborted[c] /\ pc'[c] = "settled")
                   => \E e \in NetworkErrors :
                          FailsWithMessageOnly(requestPromise'[c], e.message)
            /\ (pc[c] = "reading" /\ response[c].body.kind \in {"text", "empty"}
                  /\ pc'[c] = "settled")
                   => FailsWithMessageOnly(requestPromise'[c],
                                           ParseMessage(response[c].body))
            /\ (pc[c] = "settled" /\ pc'[c] = "done" /\ HasResult(c)
                  /\ ~requestPromise[c].value.success)
                   => httpPromise'[c] = Rejected(requestPromise[c].value.error)]_vars

\* C12's case: the network failed before the timer fired, and httpRequest
\* threw the PostmarkError made of the exception's message.
C12_Witness ==
    /\ pc[1] = "done"
    /\ sent[1] # NoRequest /\ response[1] = NoResponse /\ timer[1].st = "armed"
    /\ httpPromise[1] = Rejected(PostmarkError("fetch failed", Undefined, Undefined))

\* C13: httpRequest returns the unwrapped data exactly when the executor's
\* Result is a success and throws exactly the Result's error when it is a
\* failure: no failure becomes a returned value and none is dropped.
C13_UnwrapsOrThrows ==
    \A c \in Calls :
        /\ (pc[c] = "done" /\ HasResult(c)) =>
               IF requestPromise[c].value.success
               THEN httpPromise[c] = Resolved(requestPromise[c].value.data)
               ELSE httpPromise[c] = Rejected(requestPromise[c].value.error)
        /\ httpPromise[c].t = "resolved" =>
               HasResult(c) /\ requestPromise[c].value.success
        /\ pc[c] = "done" <=> httpPromise[c].t # "pending"

\* C13's case: a failure Result with status and code was thrown as it is.
C13_Witness ==
    /\ pc[1] = "done" /\ HasResult(1) /\ ~requestPromise[1].value.success
    /\ requestPromise[1].value.error.statusCode = JNum(300)
    /\ httpPromise[1] = Rejected(requestPromise[1].value.error)

\* The methods that carry a body.
BodyMethods == {"POST", "PUT", "PATCH"}

\* C14: for a call with a body that is not null and a method that carries a
\* body, the network call transmits that body.
C14_BodyIsSent ==
    \A c \in Calls :
        (sent[c] # NoRequest /\ args[c].data # JNull /\ args[c].method \in BodyMethods)
            => sent[c].body = args[c].data

\* The promise of call c's request is settled.
Settled(c) == requestPromise[c].t # "pending"

\* C15: each call of request calls fetch at most once; once the call has
\* its outcome, whatever the failure, it is terminal: no other fetch is made
\* and the outcome stays.
C15_AtMostOneFetch ==
    /\ [](\A c \in Calls :
            /\ fetches[c] <= 1
            /\ fetches[c] = 1 <=> sent[c] # NoRequest)
    /\ [][\A c \in Calls :
            /\ fetches[c] = 1 => (fetches'[c] = 1 /\ sent'[c] = sent[c])
            /\ Settled(c) => /\ requestPromise'[c] = requestPromise[c]
                             /\ pc'[c] \in {"settled", "done"}]_vars

\* C15's case: the one fetch of the call failed, the failure was thrown, and
\* the timer fired afterwards without another fetch.
C15_Witness ==
    /\ pc[1] = "done" /\ fetches[1] = 1
    /\ httpPromise[1] = Rejected(PostmarkError("fetch failed", Undefined, Undefined))
    /\ timer[1].st = "fired"

\* Call c's request returned a success, or the failure of a rejected status.
SucceededOrStatusRejected(c) ==
    /\ HasResult(c)
    /\ \/ requestPromise[c].value.success
       \/ CarriesStatus(requestPromise[c].value.error)

\* C16: on the success path and on the status-validation-failure path the
\* timer has been cleared before the Result is returned, and a cleared timer
\* never fires: it aborts nothing afterwards.
C16_TimerClearedBeforeResult ==
    /\ [](\A c \in Calls : SucceededOrStatusRejected(c) => timer[c].st = "cleared")
    /\ [][\A c \in Calls :
            timer[c].st = "cleared" =>
                (timer'[c].st = "cleared" /\ aborted'[c] = aborted[c])]_vars

\* C16's case: a success was returned to the caller with the timer cleared
\* and the controller never aborted.
C16_Witness ==
    /\ pc[1] = "done" /\ HasResult(1) /\ requestPromise[1].value.success
    /\ httpPromise[1] = Resolved(JStr("payload"))
    /\ timer[1].st = "cleared" /\ ~aborted[1]

\* The duration the claim expects for the resolved options.
ExpectedTimeoutMs(options) ==
    IF "timeout" \in DOMAIN options /\ options["timeout"].t = "number"
    THEN options["timeout"].v * 1000
    ELSE 60000

\* C17: the timer duration given to the executor is the configured timeout
\* in seconds times 1000 for every configured value, 0 included, and 60000
\* only when no timeout is configured.
C17_TimeoutIsSecondsTimesThousand ==
    /\ client # 0 => executors[client].timeout = ExpectedTimeoutMs(clientOptions)
    /\ \A c \in Calls :
           timer[c].st # "none" => timer[c].ms = executors[self[c]].timeout

\* The options are the defaults overlaid with this configuration alone.
IsDefaultsOverlaidWith(options, cfg) ==
    /\ DOMAIN options = DOMAIN DefaultOptions \cup DOMAIN cfg
    /\ \A k \in DOMAIN options :
           options[k] = IF k \in DOMAIN cfg THEN cfg[k] ELSE DefaultOptions[k]

\* A step of initHttpClient.
Reinitialized ==
    executors' # executors \/ client' # client \/ clientOptions' # clientOptions

\* C18: initHttpClient replaces and is idempotent: the resolved options are
\* the defaults overlaid with the configuration of this call only, the
\* executor is a new object and the old ones are left as they were, and a
\* call that resolves the same options builds an equivalent executor.
C18_InitReplacesAndIsIdempotent ==
    [][Reinitialized =>
          /\ Len(executors') = Len(executors) + 1
          /\ client' = Len(executors')
          /\ \A i \in 1..Len(executors) : executors'[i] = executors[i]
          /\ \E cfg \in Configurations : IsDefaultsOverlaidWith(clientOptions', cfg)
          /\ (client # 0 /\ clientOptions' = clientOptions)
                 => executors'[client'] = executors[client]]_vars

\* C18's case: after a configuration with a base URL and a timeout, one
\* with a timeout alone left the default base URL, in a second executor.
C18_Witness ==
    /\ Len(executors) = 2 /\ client = 2
    /\ executors[1].baseURL = OtherBaseURL /\ executors[1].timeout = 2000
    /\ IsDefaultsOverlaidWith(clientOptions, [timeout |-> JNum(0)])
    /\ executors[2].baseURL = DefaultBaseURL

\* C18's other case: the same configuration twice gave equal executors.
C18_SameTwice ==
    /\ Len(executors) = 2
    /\ executors[1] = executors[2]
    /\ executors[1].baseURL = OtherBaseURL

\* The timer of call c fires in this step.
Fires(c) == timer[c].st = "armed" /\ timer'[c].st = "fired"

\* The request of call c ended as an aborted fetch does.
EndedAborted(c) ==
    /\ HasResult(c)
    /\ ~requestPromise[c].value.success
    /\ requestPromise[c].value.error.message = AbortError.message

\* C19: each call has its own controller and timer: a timer that fires
\* aborts the controller of its own call and no other, and changes neither
\* the timer, the position, the response nor the promises of any call; a
\* call ends as aborted only if its own timer fired; and a Result, once
\* produced, never changes.
C19_TimerAbortsOnlyItsOwnCall ==
    /\ [][\A c \in Calls :
            Fires(c) =>
                /\ aborted'[c]
                /\ \A d \in Calls \ {c} :
                       aborted'[d] = aborted[d] /\ timer'[d] = timer[d]
                /\ pc' = pc /\ response' = response /\ sent' = sent
                /\ requestPromise' = requestPromise
                /\ httpPromise' = httpPromise]_vars
    /\ [](\A c \in Calls : EndedAborted(c) => timer[c].st = "fired")
    /\ [][\A c \in Calls :
            HasResult(c) => requestPromise'[c] = requestPromise[c]]_vars

\* C19's case: the timer of call 1 fired after call 1 had ended with the
\* failure of a rejected fetch, which is still its Result; call 2 was not
\* aborted and ended with the data of its response.
C19_Witness ==
    /\ timer[1].st = "fired" /\ aborted[1]
    /\ \E error \in NetworkErrors : requestPromise[1] = Resolved(CatchResult(error))
    /\ self[2] # 0 /\ ~aborted[2] /\ timer[2].st = "cleared"
    /\ pc[2] = "done"
    /\ httpPromise[2].t = "resolved"

====
